---- MODULE Spec2Model ----
(***************************************************************************)
(* A model of the notebooks of qml-mooc.                                   *)
(*                                                                         *)
(* Spec          the Ising-model notebook: J and sigma are defined, the    *)
(*               energy of sigma is evaluated, the exhaustive loop prints  *)
(*               the energy of every configuration, J and h are redefined  *)
(*               as dictionaries and the sampler's model is built.         *)
(* SearchSpec    the cell of the exhaustive loop on its own, run to its    *)
(*               end (weak fairness).                                      *)
(* SpecEncoding  the label encoding of the QBoost notebook: spins to       *)
(*               binary labels and back to spins.                          *)
(* ParSpec       the exhaustive search with its evaluations handed to      *)
(*               parallel workers and reduced by min-by-energy.            *)
(* SamplerSpec   the Ising notebook up to the sampler and response.first.  *)
(* QuboSpec      the QUBO dictionary of the QBoost notebook.               *)
(* GateSpec      the decomposition of the ZZ gate on a basis state.        *)
(* CircSpec      create_cirquit of the variational-circuits notebook.      *)
(* ExpSpec       the quantum energy cells of the Ising notebook.           *)
(* WfSpec        energy_from_params from the final state vector on.        *)
(* SplitSpec     the shuffled train/test split of the QBoost notebook.     *)
(* StochSpec     the stochastic-matrix cell, M @ p and its 1-norm in       *)
(*               float64.                                                  *)
(* BellSpec      the cell that runs H, CNOT and a measurement of both      *)
(*               qubits.                                                   *)
(* LazySpec      the exhaustive loop for any number of sites, followed one *)
(*               iteration at a time.                                      *)
(* ReadSpec      the QAOA cells of the QBoost notebook: the initial        *)
(*               circuit, minimize, and the read-out of the weights.       *)
(*                                                                         *)
(* Python's 0-based index i is the 1-based index i+1 of a TLA+ sequence.   *)
(* The couplings 1.0 and -1.0 are floats holding small integers, and every *)
(* sum and product of them the notebook forms is exact: they are modelled  *)
(* as integers.                                                            *)
(***************************************************************************)
EXTENDS Integers, Sequences, FiniteSets, TLC

VARIABLES
    J,        \* the couplings the name J holds, in the order of the chain
    Jform,    \* what J is bound to: the list of line 75, the dictionary of line 176
    sigma,    \* the spin configuration (line 76), rebound by the loop (line 119)
    pool,     \* the iteration order of the set {+1,-1} (line 119)
    todo,     \* the tuples the iterator of itertools.product has yet to yield
    k,        \* how many tuples the loop has taken from itertools.product
    out,      \* the value of the cell calculate_energy(J, sigma) (line 97)
    printed,  \* the lines the exhaustive loop has printed (line 120)
    h,        \* the external fields as a dictionary (line 177)
    model,    \* the BinaryQuadraticModel (line 198)
    pc,       \* the cell of the Ising notebook to run next
    pending,  \* the configurations no parallel worker has evaluated yet
    partials, \* the evaluated <<energy, configuration>> pairs not yet reduced away
    response, \* the samples the sampler returned, in the order of the reads (line 220)
    first,    \* the read response.first picked (part_001 line 617), 0 before
    spins,    \* a configuration in the spin encoding
    labels,   \* the configuration in the binary encoding
    y_train,  \* the labels converted binary -> spin (part_001 line 275)
    pcE,      \* the step of the encoding round trip to run next
    predictions, \* the predictions h_k(x_i) of the weak learners (part_001 line 519)
    lam,      \* the regularization strength λ (part_001 line 520)
    q,        \* the matrix q (part_001 lines 553, 583), its entries in units of 1/K^2
    Q,        \* the QUBO dictionary (part_001 line 584), keys in insertion order
    qi,       \* the i of the outer loop (part_001 line 585)
    qpos,     \* the place of the inner loop in range(i, n_models) (line 586)
    pcQ,      \* the step of the QUBO construction to run next
    gamma,    \* the γ of the ZZ gate, in tenths (notebook 07 line 366: gamma = 0.1)
    ket0,     \* the basis state |ab> the decomposition is applied to
    ket,      \* the basis state after the operations applied so far
    phase,    \* the phase gathered so far, in units of π/10, modulo 2π
    opIdx,    \* how many operations of the decomposition have been applied
    pcG,      \* whether the decomposition is idle, running or done
    betas,    \* the parameters of the mixing layers (notebook 07 line 417)
    gammas,   \* the parameters of the cost layers (notebook 07 line 418)
    circuit,  \* the moments of the circuit create_cirquit is building
    zpos,     \* how many pairs the loop has taken from zip(betas, gammas)
    pcC,      \* the step of create_cirquit to run next
    Jq,       \* the coupling of the two-site operator (1 in part_000 line 395)
    hz,       \* twice the field of the operator (0.5 in part_000 line 395 is 1)
    bits,     \* the bits b0, b1 of the basis state |b0 b1>
    H,        \* twice the matrix of the Hamiltonian (part_000 line 395)
    psi,      \* the state ψ as a column vector (part_000 line 396)
    energyQ,  \* twice the value of calculate_energy_expectation(ψ, H) (line 397)
    energyC,  \* the result of calculate_energy on the spins of the bits
    pcX,      \* the step of the quantum cells to run next
    wf,       \* the final state vector (notebook 07 line 443), <<re, im>> entries
    probs,    \* np.abs(wf)**2, the probabilities of the outcomes 00, 01, 10, 11
    energy,   \* the value energy_from_params returns (notebook 07 line 444)
    pcW,      \* the step of energy_from_params to run next
    idx,      \* the index array of the data set (part_001 lines 73-74)
    idx_train, \* the indices of the training points (part_001 line 76)
    idx_test, \* the indices of the test points (part_001 line 77)
    pcS,      \* the step of the train/test split to run next
    M,        \* the matrix M, its entries the decimal literals in tenths (part_002 line 159)
    pv,       \* the array p, a column of float64 values (part_002 line 158)
    pexact,   \* the same column in exact arithmetic, its entries over pden
    pden,     \* the denominator of the entries of pexact
    napp,     \* how many times M has been applied to p
    norm1,    \* the float64 value of np.linalg.norm(M @ p, ord=1) (part_002 line 160)
    pcM,      \* the step of the stochastic-matrix cell to run next
    bell,     \* the operations of the two-qubit circuit (part_002 lines 501-505)
    amp,      \* the simulator's state vector over 00, 01, 10, 11, each entry times sqrt(2)^roots
    roots,    \* how many factors 1/sqrt(2) the entries of amp carry
    applied,  \* how many operations of the circuit the simulator has applied
    results,  \* the measured pairs of simulator.run, one per repetition (line 506)
    pcB,      \* the step of the two-qubit cell to run next
    nsites,   \* the number of sites asked for, the argument of range (part_000 line 119)
    order,    \* the elements of the set {+1,-1} in the order the iterator holds them
    indices,  \* the position in each pool of the tuple the iterator gives next
    shown,    \* the lines the loop has printed, <<energy, configuration>>
    pcL,      \* the step of the exhaustive-search cell to run next
    num_nodes, \* the number of qubits, len(qubits) (part_001 line 768)
    fields,   \* the Ising fields h of qubo_to_ising (part_001 line 740)
    couplings, \* the Ising couplings J of qubo_to_ising, on the pairs i < j
    beta0,    \* the random initial beta (part_001 line 790)
    gamma0,   \* the random initial gamma, in quarter turns (part_001 line 791)
    circuit0, \* the notebook's circuit (part_001 line 792)
    result,   \* the result of minimize: x and fun (part_001 line 842)
    final_circuit, \* the circuit of the result's parameters (part_001 line 871)
    wfq,      \* the state vector the weights are read from (part_001 line 874)
    weights,  \* the weights read from the state vector (part_001 lines 877-880)
    pcF       \* the step of the QAOA cells of QBoost to run next

vars == <<J, Jform, sigma, pool, todo, k, out, printed, h, model, pc,
          pending, partials, response, first, spins, labels, y_train, pcE,
          predictions, lam, q, Q, qi, qpos, pcQ,
          gamma, ket0, ket, phase, opIdx, pcG,
          betas, gammas, circuit, zpos, pcC,
          Jq, hz, bits, H, psi, energyQ, energyC, pcX,
          wf, probs, energy, pcW,
          idx, idx_train, idx_test, pcS,
          M, pv, pexact, pden, napp, norm1, pcM,
          bell, amp, roots, applied, results, pcB,
          nsites, order, indices, shown, pcL,
          num_nodes, fields, couplings, beta0, gamma0, circuit0, result, final_circuit, wfq, weights, pcF>>

parVars == <<pending, partials>>
sampVars == <<response, first>>
isingVars == <<J, Jform, sigma, pool, todo, k, out, printed, h, model, pc, parVars, sampVars>>
encVars == <<spins, labels, y_train, pcE>>

\* what a step of one notebook leaves alone: the state of the others
qVars == <<predictions, lam, q, Q, qi, qpos, pcQ>>
gateVars == <<gamma, ket0, ket, phase, opIdx, pcG>>
circVars == <<betas, gammas, circuit, zpos, pcC>>
expVars == <<Jq, hz, bits, H, psi, energyQ, energyC, pcX>>
wfVars == <<wf, probs, energy, pcW>>
splitVars == <<idx, idx_train, idx_test, pcS>>
stochVars == <<M, pv, pexact, pden, napp, norm1, pcM>>
bellVars == <<bell, amp, roots, applied, results, pcB>>
lazyVars == <<nsites, order, indices, shown, pcL>>
readVars == <<num_nodes, fields, couplings, beta0, gamma0, circuit0, result, final_circuit, wfq, weights, pcF>>
notIsing == <<encVars, qVars, gateVars, circVars, expVars, wfVars, splitVars, stochVars, bellVars, lazyVars, readVars>>
notEnc == <<isingVars, qVars, gateVars, circVars, expVars, wfVars, splitVars, stochVars, bellVars, lazyVars, readVars>>
notQubo == <<isingVars, encVars, gateVars, circVars, expVars, wfVars, splitVars, stochVars, bellVars, lazyVars, readVars>>
notGate == <<isingVars, encVars, qVars, circVars, expVars, wfVars, splitVars, stochVars, bellVars, lazyVars, readVars>>
notCirc == <<isingVars, encVars, qVars, gateVars, expVars, wfVars, splitVars, stochVars, bellVars, lazyVars, readVars>>
notExp == <<isingVars, encVars, qVars, gateVars, circVars, wfVars, splitVars, stochVars, bellVars, lazyVars, readVars>>
notWf == <<isingVars, encVars, qVars, gateVars, circVars, expVars, splitVars, stochVars, bellVars, lazyVars, readVars>>
notSplit == <<encVars, qVars, gateVars, circVars, expVars, wfVars, isingVars, stochVars, bellVars, lazyVars, readVars>>
notStoch == <<encVars, qVars, gateVars, circVars, expVars, wfVars, splitVars, isingVars, bellVars, lazyVars, readVars>>
notBell == <<encVars, qVars, gateVars, circVars, expVars, wfVars, splitVars, stochVars, isingVars, lazyVars, readVars>>
notLazy == <<encVars, qVars, gateVars, circVars, expVars, wfVars, splitVars, stochVars, bellVars, isingVars, readVars>>
notRead == <<encVars, qVars, gateVars, circVars, expVars, wfVars, splitVars, stochVars, bellVars, lazyVars, isingVars>>

-----------------------------------------------------------------------------
(* Bounds of the model *)

\* the longest list of couplings
MaxCouplings == 2
\* couplings are drawn from -MaxJ..MaxJ
MaxJ == 1
\* the longest list of couplings of the parallel search and of the sampler
MaxParCouplings == 1
\* the reads asked of the sampler (num_reads)
NumReads == 2
\* the most weak learners (n_models) and the most training points (len(X_train))
MaxModels == 2
MaxPoints == 2
\* λ is drawn from 0..MaxLambda
MaxLambda == 1
\* γ is drawn from -MaxGamma..MaxGamma tenths
MaxGamma == 10
\* the longest lists of parameters given to create_cirquit
MaxLayers == 2
\* the parameters of the layers are drawn from -MaxParam..MaxParam tenths
MaxParam == 1
\* twice the field of the two-site operator is drawn from 0..MaxField
MaxField == 1
\* the amplitudes of a state vector are Gaussian integers over AmpDen
AmpDen == 2
\* the most points of the data set that is split
MaxData == 5
\* the most successive applications of the stochastic matrix
MaxApplications == 2
\* the most repetitions of simulator.run (the cell asks for 100)
MaxRepetitions == 6
\* the largest number of sites asked for, and the most iterations followed
MaxSites == 100
MaxSteps == 8
\* the most qubits of the QBoost circuit and the largest Ising coefficient
MaxNodes == 2
MaxIsing == 1
\* offsets are drawn from -MaxOffset..MaxOffset
MaxOffset == 1
\* the longest configuration of the encoding round trip
MaxLabels == 6

Spin == {1, -1}
\* entries that are not spins, such as 0 and 2
BadEntries == {0, 2}
CouplingValues == -MaxJ..MaxJ
Offsets == -MaxOffset..MaxOffset

SeqsUpTo(S, n) == UNION {[1..m -> S] : m \in 0..n}

-----------------------------------------------------------------------------
(* Python results: a value, or the exception raised *)

Return(v) == [exc |-> "none", value |-> v]
Raise(e) == [exc |-> e, value |-> 0]

-----------------------------------------------------------------------------
(* calculate_energy, part_000 lines 53-54:                                 *)
(*     return sum(J_ij*σ[i]*σ[i+1] for i, J_ij in enumerate(J))            *)
(* The generator is consumed from i = 0 upwards; σ[i] and σ[i+1] raise     *)
(* IndexError when the index is not below len(σ); i is never negative.     *)

\* a slip of the index: σ[i]*σ[i] for σ[i]*σ[i+1]
TermSameSite(Jl, s, i) == Jl[i] * s[i] * s[i]

\* the second spin dropped from the product
TermOneSpin(Jl, s, i) == Jl[i] * s[i]

\* J_ij*σ[i]*σ[i+1]
Term(Jl, s, i) == Jl[i] * s[i] * s[i + 1]

\* σ[i] for a non-negative Python index: i < len(σ)
InRange(s, i) == i <= Len(s)

\* the couplings zipped with the neighbouring spins: a coupling whose sites
\* are missing is silently left out
RECURSIVE SumTermsZip(_, _, _, _)
SumTermsZip(Jl, s, i, acc) ==
    IF i > Len(Jl) \/ ~InRange(s, i + 1) THEN [exc |-> "none", value |-> acc]
    ELSE SumTermsZip(Jl, s, i + 1, acc + Term(Jl, s, i))

RECURSIVE SumTerms(_, _, _, _)
SumTerms(Jl, s, i, acc) ==
    IF i > Len(Jl) THEN Return(acc)
    ELSE IF ~InRange(s, i) \/ ~InRange(s, i + 1) THEN Raise("IndexError")
    ELSE SumTerms(Jl, s, i + 1, acc + Term(Jl, s, i))

\* the entries checked before the sum is formed
calculate_energy_checked(Jl, s) ==
    IF \E i \in 1..Len(s) : s[i] \notin {1, -1}
    THEN Raise("ValueError")
    ELSE SumTerms(Jl, s, 1, 0)

\* the sum started from a total kept between the calls (here the number of
\* earlier evaluations) in place of a fresh 0
calculate_energy_running(Jl, s) == SumTerms(Jl, s, 1, k)

calculate_energy(Jl, s) == SumTerms(Jl, s, 1, 0)

-----------------------------------------------------------------------------
(* itertools.product over the pools: the tuples in odometer order, the     *)
(* rightmost position advancing fastest. Tuple number j (from 0) holds at  *)
(* position i the element (j div Stride(i)) mod len(pool_i) of pool i,     *)
(* where Stride(i) is the number of tuples over the pools right of i.      *)

RECURSIVE Stride(_, _)
Stride(pools, i) ==
    IF i >= Len(pools) THEN 1 ELSE Len(pools[i + 1]) * Stride(pools, i + 1)

\* the last tuple is never yielded
productShort(pools) ==
    [j \in 1..(Stride(pools, 0) - 1) |->
        [i \in 1..Len(pools) |->
            pools[i][(((j - 1) \div Stride(pools, i)) % Len(pools[i])) + 1]]]

product(pools) ==
    [j \in 1..Stride(pools, 0) |->
        [i \in 1..Len(pools) |->
            pools[i][(((j - 1) \div Stride(pools, i)) % Len(pools[i])) + 1]]]

\* range(3) for the notebook's J of two couplings: the sites of the chain
NumSites(Jl) == Len(Jl) + 1

\* [{+1,-1} for _ in range(3)]
Pools(Jl, pl) == [i \in 1..NumSites(Jl) |-> pl]

-----------------------------------------------------------------------------
(* The Ising notebook *)

\* no model built yet
NoModel == [linear |-> <<>>, quadratic |-> <<>>, offset |-> 0, vartype |-> "none"]

\* no parallel search under way
ParIdle == pending = {} /\ partials = {}

\* the sampler not called yet
SampIdle == response = <<>> /\ first = 0

IsingIdle ==
    /\ ParIdle
    /\ SampIdle
    /\ J = <<>> /\ Jform = "list" /\ sigma = <<>> /\ pool = <<1, -1>> /\ todo = <<>> /\ k = 0
    /\ out = Return(0) /\ printed = <<>> /\ h = <<>> /\ model = NoModel
    /\ pc = "idle"

EncIdle ==
    /\ spins = <<>> /\ labels = <<>> /\ y_train = <<>> /\ pcE = "idle"

QuboIdle ==
    /\ predictions = <<>> /\ lam = 0 /\ q = <<>> /\ Q = <<>> /\ qi = 0 /\ qpos = 1
    /\ pcQ = "idle"

GateIdle ==
    /\ gamma = 0 /\ ket0 = <<0, 0>> /\ ket = <<0, 0>> /\ phase = 0 /\ opIdx = 0
    /\ pcG = "idle"

CircIdle ==
    /\ betas = <<>> /\ gammas = <<>> /\ circuit = <<>> /\ zpos = 0 /\ pcC = "idle"

ExpIdle ==
    /\ Jq = 0 /\ hz = 0 /\ bits = <<0, 0>> /\ H = <<>> /\ psi = <<>>
    /\ energyQ = 0 /\ energyC = Return(0) /\ pcX = "idle"

WfIdle == wf = <<>> /\ probs = <<>> /\ energy = 0 /\ pcW = "idle"

SplitIdle == idx = <<>> /\ idx_train = <<>> /\ idx_test = <<>> /\ pcS = "idle"

StochIdle == M = <<>> /\ pv = <<>> /\ pexact = <<>> /\ pden = 1 /\ napp = 0 /\ norm1 = <<>> /\ pcM = "idle"

BellIdle == bell = <<>> /\ amp = <<>> /\ roots = 0 /\ applied = 0 /\ results = <<>> /\ pcB = "idle"

LazyIdle == nsites = 0 /\ order = <<>> /\ indices = <<>> /\ shown = <<>> /\ pcL = "idle"

ReadIdle ==
num_nodes = 0 /\ fields = <<>> /\ couplings = <<>> /\ beta0 = 0 /\ gamma0 = 0 /\ circuit0 = <<>>
    /\ result = <<>> /\ final_circuit = <<>> /\ wfq = <<>> /\ weights = <<>> /\ pcF = "idle"

\* lines 75-76: J and sigma are defined; a set of two elements iterates in
\* one of two orders
IsingInit ==
    /\ J \in SeqsUpTo(CouplingValues, MaxCouplings)
    /\ Jform = "list"
    /\ sigma \in SeqsUpTo(Spin \cup BadEntries, MaxCouplings + 1)
    /\ pool \in {<<1, -1>>, <<-1, 1>>}
    /\ todo = <<>>
    /\ k = 0
    /\ out = Return(0)
    /\ printed = <<>>
    /\ h = <<>>
    /\ model = NoModel
    /\ pc = "start"
    /\ ParIdle
    /\ SampIdle

\* line 97: calculate_energy(J, σ)
Evaluate ==
    /\ pc = "start"
    /\ out' = calculate_energy(J, sigma)
    /\ pc' = IF out'.exc = "none" THEN "search" ELSE "failed"
    /\ UNCHANGED <<J, Jform, sigma, pool, todo, k, printed, h, model, parVars, sampVars>>

\* line 119: the iterator itertools.product(<the set {+1,-1}, range(3) times>)
\* is created; it copies its pools
LoopEnter ==
    /\ pc = "search"
    /\ todo' = product(Pools(J, pool))
    /\ pc' = "loop"
    /\ UNCHANGED <<J, Jform, sigma, pool, k, out, printed, h, model, parVars, sampVars>>

\* the loop variable taken for a name of the loop's own: the notebook's σ is
\* left as it was
LoopStepLocal ==
    /\ pc = "loop"
    /\ todo # <<>>
    /\ sigma' = sigma
    /\ todo' = Tail(todo)
    /\ LET e == calculate_energy(J, Head(todo)) IN
         IF e.exc = "none"
         THEN /\ printed' = Append(printed, <<e.value, Head(todo)>>)
              /\ pc' = "loop"
         ELSE /\ printed' = printed
              /\ pc' = "failed"
    /\ k' = k + 1
    /\ UNCHANGED <<J, Jform, pool, out, h, model, parVars, sampVars>>

\* lines 119-120: one iteration of
\*     for σ in <the iterator>:
\*         print(calculate_energy(J, σ), σ)
LoopStep ==
    /\ pc = "loop"
    /\ todo # <<>>
    /\ sigma' = Head(todo)
    /\ todo' = Tail(todo)
    /\ LET e == calculate_energy(J, sigma') IN
         IF e.exc = "none"
         THEN /\ printed' = Append(printed, <<e.value, sigma'>>)
              /\ pc' = "loop"
         ELSE /\ printed' = printed
              /\ pc' = "failed"
    /\ k' = k + 1
    /\ UNCHANGED <<J, Jform, pool, out, h, model, parVars, sampVars>>

\* the iterator is exhausted: the loop ends
LoopExit ==
    /\ pc = "loop"
    /\ todo = <<>>
    /\ pc' = "searched"
    /\ UNCHANGED <<J, Jform, sigma, pool, todo, k, out, printed, h, model, parVars, sampVars>>

\* lines 176-177: J = {(0, 1): 1.0, (1, 2): -1.0}; h = {0:0, 1:0, 2:0}
\* The dictionary holds the couplings of the list under the keys (i, i+1):
\* J keeps the couplings, Jform records that the name now holds a dictionary
\* and DictJ(J) is that dictionary.
DictJ(Jl) == [p \in {<<i - 1, i>> : i \in 1..Len(Jl)} |-> Jl[p[2]]]
DictH(Jl) == [i \in 0..(NumSites(Jl) - 1) |-> 0]

DefineDicts ==
    /\ pc = "searched"
    /\ Jform' = "dict"
    /\ h' = DictH(J)
    /\ pc' = "dicts"
    /\ UNCHANGED <<J, sigma, pool, todo, k, out, printed, model, parVars, sampVars>>

\* line 198: model = dimod.BinaryQuadraticModel(h, J, 0.0, dimod.SPIN)
BinaryQuadraticModel(linear, quadratic, offset, vartype) ==
    [linear |-> linear, quadratic |-> quadratic, offset |-> offset,
     vartype |-> vartype]

BuildModel ==
    /\ pc = "dicts"
    /\ \E c \in Offsets : model' = BinaryQuadraticModel(h, DictJ(J), c, "SPIN")
    /\ pc' = "built"
    /\ UNCHANGED <<J, Jform, sigma, pool, todo, k, out, printed, h, parVars, sampVars>>

-----------------------------------------------------------------------------
(* The energy of a sample under the BinaryQuadraticModel of line 198, as   *)
(* the sampler reports it: the linear biases times the spins, plus the     *)
(* quadratic biases times the products of the two spins, plus the offset.  *)
(* A sample is the tuple of the spins of the variables 0, 1, ...           *)

RECURSIVE SumFn(_, _)
SumFn(f, S) ==
    IF S = {} THEN 0
    ELSE LET x == CHOOSE x \in S : TRUE IN f[x] + SumFn(f, S \ {x})

LinearEnergy(m, s) ==
    SumFn([v \in DOMAIN m.linear |-> m.linear[v] * s[v + 1]], DOMAIN m.linear)

QuadraticEnergy(m, s) ==
    SumFn([p \in DOMAIN m.quadratic |->
              m.quadratic[p] * s[p[1] + 1] * s[p[2] + 1]],
          DOMAIN m.quadratic)

\* the offset taken for a field on every variable
BQMEnergyOffsetAsField(m, s) ==
    SumFn([v \in DOMAIN m.linear |-> (m.linear[v] + m.offset) * s[v + 1]],
          DOMAIN m.linear)
    + QuadraticEnergy(m, s)

BQMEnergy(m, s) == LinearEnergy(m, s) + QuadraticEnergy(m, s) + m.offset

-----------------------------------------------------------------------------
(* The label encoding, part_001 lines 275-276, and its inverse *)

\* off by one: 2w - 2
BinaryToSpinShifted(w) == 2 * w - 2

\* y_train = 2 * labels[idx_train] - 1  # binary -> spin
BinaryToSpin(w) == 2 * w - 1

\* the inverse s -> w = (s+1)/2; s+1 is 0 or 2 for a spin, so the quotient is
\* exact
SpinToBinary(s) == (s + 1) \div 2

EncInit ==
    /\ spins \in SeqsUpTo(Spin, MaxLabels)
    /\ labels = <<>>
    /\ y_train = <<>>
    /\ pcE = "spin"

\* s -> w, entry by entry
ToBinary ==
    /\ pcE = "spin"
    /\ labels' = [i \in 1..Len(spins) |-> SpinToBinary(spins[i])]
    /\ pcE' = "binary"
    /\ UNCHANGED <<spins, y_train>>

\* w -> s', entry by entry (the arrays are converted element-wise)
ToSpin ==
    /\ pcE = "binary"
    /\ y_train' = [i \in 1..Len(labels) |-> BinaryToSpin(labels[i])]
    /\ pcE' = "back"
    /\ UNCHANGED <<spins, labels>>

-----------------------------------------------------------------------------
Init == IsingInit /\ EncIdle /\ QuboIdle /\ GateIdle /\ CircIdle /\ ExpIdle /\ WfIdle /\ SplitIdle /\ StochIdle /\ BellIdle /\ LazyIdle /\ ReadIdle

Next ==
    \/ Evaluate /\ UNCHANGED notIsing
    \/ LoopEnter /\ UNCHANGED notIsing
    \/ LoopStep /\ UNCHANGED notIsing
    \/ LoopExit /\ UNCHANGED notIsing
    \/ DefineDicts /\ UNCHANGED notIsing
    \/ BuildModel /\ UNCHANGED notIsing

Spec == Init /\ [][Next]_vars

\* The cell of the exhaustive search run on its own, for a J as of line 75 and
\* the alternating σ of line 76 ([+1, -1, +1] for three sites). A running cell
\* is run to its end: weak fairness of its steps.
SearchInit ==
    /\ J \in SeqsUpTo(CouplingValues, MaxCouplings)
    /\ Jform = "list"
    /\ sigma = [i \in 1..NumSites(J) |-> IF i % 2 = 1 THEN 1 ELSE -1]
    /\ pool \in {<<1, -1>>, <<-1, 1>>}
    /\ todo = <<>>
    /\ k = 0
    /\ out = Return(0)
    /\ printed = <<>>
    /\ h = <<>>
    /\ model = NoModel
    /\ pc = "search"
    /\ ParIdle
    /\ SampIdle
    /\ EncIdle
    /\ QuboIdle
    /\ GateIdle
    /\ CircIdle
    /\ ExpIdle /\ WfIdle /\ SplitIdle /\ StochIdle /\ BellIdle /\ LazyIdle /\ ReadIdle

SearchNext ==
    \/ LoopEnter /\ UNCHANGED notIsing
    \/ LoopStep /\ UNCHANGED notIsing
    \/ LoopExit /\ UNCHANGED notIsing

SearchSpec == SearchInit /\ [][SearchNext]_vars /\ WF_vars(SearchNext)

EncodingInit == EncInit /\ IsingIdle /\ QuboIdle /\ GateIdle /\ CircIdle /\ ExpIdle /\ WfIdle /\ SplitIdle /\ StochIdle /\ BellIdle /\ LazyIdle /\ ReadIdle

EncodingNext ==
    \/ ToBinary /\ UNCHANGED notEnc
    \/ ToSpin /\ UNCHANGED notEnc

SpecEncoding == EncodingInit /\ [][EncodingNext]_vars

-----------------------------------------------------------------------------
(* The exhaustive search of lines 118-120 carried out in parallel: the     *)
(* configurations of itertools.product are evaluated one by one by         *)
(* whichever worker takes them, each by a call of calculate_energy, and    *)
(* the results are combined two at a time by a min-by-energy reduction.    *)
(* The sequential loop runs first, so that its lines are there to compare. *)

Range(f) == {f[i] : i \in DOMAIN f}

ParInit ==
    /\ J \in SeqsUpTo(CouplingValues, MaxParCouplings)
    /\ Jform = "list"
    /\ sigma = [i \in 1..NumSites(J) |-> IF i % 2 = 1 THEN 1 ELSE -1]
    /\ pool \in {<<1, -1>>, <<-1, 1>>}
    /\ todo = <<>>
    /\ k = 0
    /\ out = Return(0)
    /\ printed = <<>>
    /\ h = <<>>
    /\ model = NoModel
    /\ pc = "search"
    /\ ParIdle
    /\ SampIdle
    /\ EncIdle
    /\ QuboIdle
    /\ GateIdle
    /\ CircIdle
    /\ ExpIdle /\ WfIdle /\ SplitIdle /\ StochIdle /\ BellIdle /\ LazyIdle /\ ReadIdle

\* the candidates are handed out
Fork ==
    /\ pc = "searched"
    /\ pending' = Range(product(Pools(J, pool)))
    /\ partials' = {}
    /\ pc' = "parallel"
    /\ UNCHANGED <<J, Jform, sigma, pool, todo, k, out, printed, h, model, sampVars>>

\* some worker evaluates a configuration nobody has evaluated yet
Work ==
    /\ pc = "parallel"
    /\ \E c \in pending :
         LET e == calculate_energy(J, c) IN
           /\ e.exc = "none"
           /\ partials' = partials \cup {<<e.value, c>>}
           /\ pending' = pending \ {c}
    /\ k' = k + 1
    /\ UNCHANGED <<J, Jform, sigma, pool, todo, out, printed, h, model, pc, sampVars>>

\* of two results the one of less energy; of two of the same energy, either
MinByEnergy(a, b) ==
    IF a[1] < b[1] THEN {a} ELSE IF b[1] < a[1] THEN {b} ELSE {a, b}

\* two results, whichever they are, are combined into one
Reduce ==
    /\ pc = "parallel"
    /\ \E a, b \in partials :
         /\ a # b
         /\ \E m \in MinByEnergy(a, b) :
              partials' = (partials \ {a, b}) \cup {m}
    /\ UNCHANGED <<J, Jform, sigma, pool, todo, k, out, printed, h, model, pc, pending, sampVars>>

ParNext ==
    \/ LoopEnter /\ UNCHANGED notIsing
    \/ LoopStep /\ UNCHANGED notIsing
    \/ LoopExit /\ UNCHANGED notIsing
    \/ Fork /\ UNCHANGED notIsing
    \/ Work /\ UNCHANGED notIsing
    \/ Reduce /\ UNCHANGED notIsing

ParSpec == ParInit /\ [][ParNext]_vars

-----------------------------------------------------------------------------
(* The sampler, lines 219-220: response = sampler.sample(model,            *)
(* num_reads=10). Simulated annealing returns one sample for every read,   *)
(* whichever configurations its random walk ends in, each with its energy  *)
(* under the model. response.first (part_001 line 617) is the sample of    *)
(* least energy; among samples of the same least energy the sort may put   *)
(* any first.                                                              *)

Sample ==
    /\ pc = "built"
    /\ response' \in [1..NumReads -> [1..NumSites(J) -> Spin]]
    /\ pc' = "sampled"
    /\ UNCHANGED <<J, Jform, sigma, pool, todo, k, out, printed, h, model, first, parVars>>

\* the first sample in the order of the reads
FirstRead(m, resp) == {1}

\* the reads that response.first may be
LowestEnergy(m, resp) ==
    {i \in DOMAIN resp :
        \A j \in DOMAIN resp : BQMEnergy(m, resp[i]) <= BQMEnergy(m, resp[j])}

TakeFirst ==
    /\ pc = "sampled"
    /\ first' \in LowestEnergy(model, response)
    /\ pc' = "first"
    /\ UNCHANGED <<J, Jform, sigma, pool, todo, k, out, printed, h, model, response, parVars>>

SamplerNext ==
    \/ LoopEnter /\ UNCHANGED notIsing
    \/ LoopStep /\ UNCHANGED notIsing
    \/ LoopExit /\ UNCHANGED notIsing
    \/ DefineDicts /\ UNCHANGED notIsing
    \/ BuildModel /\ UNCHANGED notIsing
    \/ Sample /\ UNCHANGED notIsing
    \/ TakeFirst /\ UNCHANGED notIsing

SamplerSpec == ParInit /\ [][SamplerNext]_vars

-----------------------------------------------------------------------------

(* The QUBO of the QBoost notebook, part_001 lines 518-587. Every entry of *)
(* q is a multiple of 1/K^2 for K = n_models: the model keeps the          *)
(* numerators, that is K^2 times the entries, which are integers.          *)

\* range(a, b), as the sequence it yields
range(a, b) == [n \in 1..(IF b > a THEN b - a ELSE 0) |-> a + n - 1]

\* line 518: n_models = len(models); one row of predictions for every model
n_models == Len(predictions)
\* len(X_train): one label for every training point
NumPoints == Len(y_train)

\* u @ v for two vectors
Dot(u, v) ==
    LET f[i \in 0..Len(u)] == IF i = 0 THEN 0 ELSE f[i - 1] + u[i] * v[i]
    IN f[Len(u)]

\* lines 275, 519-520: the spin labels of the training points, the
\* predictions of the weak learners on them, and λ
QuboInit ==
    /\ \E K \in 1..MaxModels, N \in 1..MaxPoints :
         /\ labels \in [1..N -> {0, 1}]
         /\ predictions \in [1..K -> [1..N -> Spin]]
    /\ y_train = [i \in 1..Len(labels) |-> BinaryToSpin(labels[i])]
    /\ spins = y_train
    /\ pcE = "back"
    /\ lam \in 0..MaxLambda
    /\ q = <<>> /\ Q = <<>> /\ qi = 0 /\ qpos = 1
    /\ pcQ = "q"
    /\ IsingIdle
    /\ GateIdle
    /\ CircIdle
    /\ ExpIdle /\ WfIdle /\ SplitIdle /\ StochIdle /\ BellIdle /\ LazyIdle /\ ReadIdle

\* line 553: q = predictions @ predictions.T/(n_models ** 2)
ComputeQ ==
    /\ pcQ = "q"
    /\ q' = [a \in 1..n_models |->
               [b \in 1..n_models |-> Dot(predictions[a], predictions[b])]]
    /\ pcQ' = "diagonal"
    /\ UNCHANGED <<predictions, lam, Q, qi, qpos>>

\* line 581: qii = len(X_train) / (n_models ** 2) + λ
\*                 - 2 * predictions @ y_train/(n_models)
qii(a) ==
    NumPoints + n_models * n_models * lam
        - 2 * n_models * Dot(predictions[a], y_train)

\* line 583: q[np.diag_indices_from(q)] = qii
SetDiagonal ==
    /\ pcQ = "diagonal"
    /\ q' = [a \in 1..n_models |->
               [b \in 1..n_models |-> IF a = b THEN qii(a) ELSE q[a][b]]]
    /\ pcQ' = "dict"
    /\ UNCHANGED <<predictions, lam, Q, qi, qpos>>

\* d[key] = v on a dictionary: the value of a key it has is replaced, a new
\* key is added after the others
DictSet(d, key, v) ==
    IF \E n \in 1..Len(d) : d[n][1] = key
    THEN [n \in 1..Len(d) |-> IF d[n][1] = key THEN <<key, v>> ELSE d[n]]
    ELSE Append(d, <<key, v>>)

\* line 584: Q = {}, and the outer loop of line 585 starts
NewDict ==
    /\ pcQ = "dict"
    /\ Q' = <<>>
    /\ qi' = 0
    /\ qpos' = 1
    /\ pcQ' = "fill"
    /\ UNCHANGED <<predictions, lam, q>>

\* every column, the ones left of the diagonal too
InnerRangeFull(i) == range(0, n_models)

\* line 586: range(i, n_models)
InnerRange(i) == range(i, n_models)

\* lines 586-587: one iteration of the inner loop, Q[(i, j)] = q[i, j]
FillStep ==
    /\ pcQ = "fill"
    /\ qi < n_models
    /\ qpos <= Len(InnerRange(qi))
    /\ LET j == InnerRange(qi)[qpos] IN
         Q' = DictSet(Q, <<qi, j>>, q[qi + 1][j + 1])
    /\ qpos' = qpos + 1
    /\ UNCHANGED <<predictions, lam, q, qi, pcQ>>

\* line 585: the inner loop is exhausted, the outer loop takes its next i
FillNextRow ==
    /\ pcQ = "fill"
    /\ qi < n_models
    /\ qpos > Len(InnerRange(qi))
    /\ qi' = qi + 1
    /\ qpos' = 1
    /\ UNCHANGED <<predictions, lam, q, Q, pcQ>>

\* line 585: the outer loop is exhausted
FillDone ==
    /\ pcQ = "fill"
    /\ qi >= n_models
    /\ pcQ' = "done"
    /\ UNCHANGED <<predictions, lam, q, Q, qi, qpos>>

QuboNext ==
    \/ ComputeQ /\ UNCHANGED notQubo
    \/ SetDiagonal /\ UNCHANGED notQubo
    \/ NewDict /\ UNCHANGED notQubo
    \/ FillStep /\ UNCHANGED notQubo
    \/ FillNextRow /\ UNCHANGED notQubo
    \/ FillDone /\ UNCHANGED notQubo

QuboSpec == QuboInit /\ [][QuboNext]_vars

-----------------------------------------------------------------------------

(* The ZZ gate of notebook 07, lines 294-311, on a computational basis    *)
(* state. Every operation of the decomposition is a permutation of the     *)
(* basis states (X) or diagonal (a power of CZ), so a basis state stays a  *)
(* basis state and gathers a phase. γ is a number of tenths, as the 0.1 of  *)
(* line 366, and a phase is a number of units of π/10 modulo 2π.            *)

\* the denominator of γ: 0.1 = 1/10
GammaDen == 10

\* cirq.CZ(a, b)**t and cirq.X(a) as operations
CZPow(t, qa, qb) == [gate |-> "CZ", exponent |-> t, qubits |-> <<qa, qb>>]
X(qs) == [gate |-> "X", exponent |-> 1, qubits |-> qs]

\* every power of CZ with the exponent +γ
ZZGate_decompose_same_sign(g, qubits) ==
    LET a == qubits[1]
        b == qubits[2]
    IN << CZPow(g, a, b),
          X(<<b>>),
          CZPow(g, a, b),
          X(<<a, b>>),
          CZPow(g, a, b),
          X(<<b>>),
          CZPow(g, a, b),
          X(<<a, b>>) >>

\* lines 302-311: ZZGate._decompose_, the operations in the order yielded
ZZGate_decompose(g, qubits) ==
    LET a == qubits[1]
        b == qubits[2]
    IN << CZPow(0 - g, a, b),
          X(<<b>>),
          CZPow(g, a, b),
          X(<<a, b>>),
          CZPow(g, a, b),
          X(<<b>>),
          CZPow(0 - g, a, b),
          X(<<a, b>>) >>

\* the place of a qubit in |ab>
QubitIndex(qb) == IF qb = "a" THEN 1 ELSE 2

\* X exchanges |0> and |1> on each of its qubits
ApplyX(op, kt) ==
    [n \in 1..2 |->
        IF \E m \in 1..Len(op.qubits) : QubitIndex(op.qubits[m]) = n
        THEN 1 - kt[n] ELSE kt[n]]

\* CZ**t is diag(1, 1, 1, exp(iπt)): the phase πt where both qubits are 1
PhaseOfCZ(op, kt) ==
    IF kt[QubitIndex(op.qubits[1])] = 1 /\ kt[QubitIndex(op.qubits[2])] = 1
    THEN op.exponent ELSE 0

GateInit ==
    /\ gamma \in -MaxGamma..MaxGamma
    /\ ket0 \in [1..2 -> {0, 1}]
    /\ ket = ket0
    /\ phase = 0
    /\ opIdx = 0
    /\ pcG = "run"
    /\ IsingIdle /\ EncIdle /\ QuboIdle /\ CircIdle /\ ExpIdle /\ WfIdle /\ SplitIdle /\ StochIdle /\ BellIdle /\ LazyIdle /\ ReadIdle

\* the next operation of the decomposition acts on the state
ApplyOperation ==
    /\ pcG = "run"
    /\ opIdx < Len(ZZGate_decompose(gamma, <<"a", "b">>))
    /\ LET op == ZZGate_decompose(gamma, <<"a", "b">>)[opIdx + 1] IN
         IF op.gate = "X"
         THEN /\ ket' = ApplyX(op, ket)
              /\ phase' = phase
         ELSE /\ ket' = ket
              /\ phase' = (phase + PhaseOfCZ(op, ket)) % (2 * GammaDen)
    /\ opIdx' = opIdx + 1
    /\ UNCHANGED <<gamma, ket0, pcG>>

\* the generator is exhausted
DecomposeDone ==
    /\ pcG = "run"
    /\ opIdx = Len(ZZGate_decompose(gamma, <<"a", "b">>))
    /\ pcG' = "done"
    /\ UNCHANGED <<gamma, ket0, ket, phase, opIdx>>

GateNext ==
    \/ ApplyOperation /\ UNCHANGED notGate
    \/ DecomposeDone /\ UNCHANGED notGate

GateSpec == GateInit /\ [][GateNext]_vars

\* lines 367-370: the diagonal of test_matrix, exp(-iπγ) on |00> and |11>,
\* exp(iπγ) on |01> and |10>, as a phase
test_matrix(g, kt) ==
    (IF kt[1] = kt[2] THEN 0 - g ELSE g) % (2 * GammaDen)

-----------------------------------------------------------------------------

(* create_cirquit of notebook 07, lines 388-394. A circuit is the sequence *)
(* of its moments and a moment is the set of its operations.               *)
(* circuit.append places an operation in the earliest moment that comes    *)
(* after every operation on one of its qubits (cirq's default strategy).   *)

\* the lists are paired up to the end of the longer, the shorter filled with 0
zip_longest(x, y) ==
    [n \in 1..(IF Len(x) > Len(y) THEN Len(x) ELSE Len(y)) |->
        <<IF n <= Len(x) THEN x[n] ELSE 0, IF n <= Len(y) THEN y[n] ELSE 0>>]

\* zip(x, y): the pairs up to the end of the shorter list
zip(x, y) ==
    [n \in 1..(IF Len(x) < Len(y) THEN Len(x) ELSE Len(y)) |-> <<x[n], y[n]>>]

\* line 390: cirq.H.on_each([a, b])
H_on_each(qs) ==
    [n \in 1..Len(qs) |-> [gate |-> "H", exponent |-> 1, qubits |-> <<qs[n]>>]]

\* lines 97-98: beta_layer yields (cirq.X**(-beta)).on_each([a, b])
beta_layer(beta, a, b) ==
    [n \in 1..2 |->
        [gate |-> "X", exponent |-> 0 - beta, qubits |-> << <<a, b>>[n] >>]]

\* lines 338-339: gamma_layer yields ZZGate(gamma).on(a, b)
gamma_layer(g, a, b) ==
    << [gate |-> "ZZ", exponent |-> g, qubits |-> <<a, b>>] >>

Touches(moment, op) ==
    \E o \in moment : Range(o.qubits) \cap Range(op.qubits) # {}

\* the moment the operation goes to
EarliestMoment(c, op) ==
    LET busy == {m \in 1..Len(c) : Touches(c[m], op)}
    IN IF busy = {} THEN 1 ELSE (CHOOSE m \in busy : \A o \in busy : o <= m) + 1

Place(c, op) ==
    LET m == IF c = <<>> THEN 1 ELSE EarliestMoment(c, op)
    IN IF m > Len(c) THEN Append(c, {op})
       ELSE [c EXCEPT ![m] = @ \cup {op}]

\* circuit.append(ops): the operations are placed one after the other
RECURSIVE CircuitAppend(_, _)
CircuitAppend(c, ops) ==
    IF ops = <<>> THEN c
    ELSE CircuitAppend(Place(c, Head(ops)), Tail(ops))

CircInit ==
    /\ betas \in SeqsUpTo(-MaxParam..MaxParam, MaxLayers)
    /\ gammas \in SeqsUpTo(-MaxParam..MaxParam, MaxLayers)
    /\ circuit = <<>>
    /\ zpos = 0
    /\ pcC = "call"
    /\ IsingIdle /\ EncIdle /\ QuboIdle /\ GateIdle /\ ExpIdle /\ WfIdle /\ SplitIdle /\ StochIdle /\ BellIdle /\ LazyIdle /\ ReadIdle

\* lines 389-390: circuit = cirq.Circuit();
\* circuit.append(cirq.H.on_each([a, b]))
NewCircuit ==
    /\ pcC = "call"
    /\ circuit' = CircuitAppend(<<>>, H_on_each(<<"a", "b">>))
    /\ zpos' = 0
    /\ pcC' = "zip"
    /\ UNCHANGED <<betas, gammas>>

\* lines 391-393: one iteration of for beta, gamma in zip(betas, gammas)
AppendLayers ==
    /\ pcC = "zip"
    /\ zpos < Len(zip(betas, gammas))
    /\ LET beta == zip(betas, gammas)[zpos + 1][1]
           g == zip(betas, gammas)[zpos + 1][2]
           mixed == CircuitAppend(circuit, beta_layer(beta, "a", "b"))
       IN circuit' = CircuitAppend(mixed, gamma_layer(g, "a", "b"))
    /\ zpos' = zpos + 1
    /\ UNCHANGED <<betas, gammas, pcC>>

\* line 394: return circuit
ReturnCircuit ==
    /\ pcC = "zip"
    /\ zpos >= Len(zip(betas, gammas))
    /\ pcC' = "returned"
    /\ UNCHANGED <<betas, gammas, circuit, zpos>>

CircNext ==
    \/ NewCircuit /\ UNCHANGED notCirc
    \/ AppendLayers /\ UNCHANGED notCirc
    \/ ReturnCircuit /\ UNCHANGED notCirc

CircSpec == CircInit /\ [][CircNext]_vars

-----------------------------------------------------------------------------

(* The quantum cells of the Ising notebook, part_000 lines 369-397. The    *)
(* field 0.5 of line 395 is half an integer: the model keeps twice the     *)
(* Hamiltonian, and so twice the expectation value, which are integers.    *)
(* A matrix is the sequence of its rows. Every entry is real, so the       *)
(* conjugate and the real part leave it as it is.                          *)

\* np.kron(A, B)
kron(A, B) ==
    [i \in 1..(Len(A) * Len(B)) |->
        [j \in 1..(Len(A[1]) * Len(B[1])) |->
            A[((i - 1) \div Len(B)) + 1][((j - 1) \div Len(B[1])) + 1]
                * B[((i - 1) % Len(B)) + 1][((j - 1) % Len(B[1])) + 1]]]

\* A @ B
MatMul(A, B) ==
    [i \in 1..Len(A) |->
        [j \in 1..Len(B[1]) |->
            LET f[n \in 0..Len(B)] ==
                    IF n = 0 THEN 0 ELSE f[n - 1] + A[i][n] * B[n][j]
            IN f[Len(B)]]]

\* A.T.conj()
ConjTranspose(A) == [j \in 1..Len(A[1]) |-> [i \in 1..Len(A) |-> A[i][j]]]

Scale(c, A) == [i \in 1..Len(A) |-> [j \in 1..Len(A[i]) |-> c * A[i][j]]]
MatAdd(A, B) == [i \in 1..Len(A) |-> [j \in 1..Len(A[i]) |-> A[i][j] + B[i][j]]]

\* line 391 and np.eye(2)
PauliZ == << <<1, 0>>, <<0, -1>> >>
Eye2 == << <<1, 0>>, <<0, 1>> >>
\* lines 392-394
IZ == kron(Eye2, PauliZ)
ZI == kron(PauliZ, Eye2)
ZZ == kron(PauliZ, PauliZ)

\* [[1], [0]] for the bit 0, [[0], [1]] for the bit 1
Ket(b) == IF b = 0 THEN << <<1>>, <<0>> >> ELSE << <<0>>, <<1>> >>

\* the classical spin of a bit: +1 for 0, -1 for 1 (line 349)
SpinOfBit(b) == 1 - 2 * b

\* lines 369-370: (state.T.conj() @ hamiltonian @ state).item().real
calculate_energy_expectation(state, hamiltonian) ==
    MatMul(MatMul(ConjTranspose(state), hamiltonian), state)[1][1]

ExpInit ==
    /\ Jq \in CouplingValues
    /\ hz \in 0..MaxField
    /\ bits \in [1..2 -> {0, 1}]
    /\ H = <<>>
    /\ psi = <<>>
    /\ energyQ = 0
    /\ energyC = Return(0)
    /\ pcX = "operator"
    /\ IsingIdle /\ EncIdle /\ QuboIdle /\ GateIdle /\ CircIdle /\ WfIdle /\ SplitIdle /\ StochIdle /\ BellIdle /\ LazyIdle /\ ReadIdle

\* line 395: H = -ZZ + -0.5*(ZI+IZ), for the coupling Jq and the field hz/2;
\* twice the matrix is kept
DefineH ==
    /\ pcX = "operator"
    /\ H' = MatAdd(Scale(0 - 2 * Jq, ZZ), Scale(0 - hz, MatAdd(ZI, IZ)))
    /\ pcX' = "state"
    /\ UNCHANGED <<Jq, hz, bits, psi, energyQ, energyC>>

\* line 396: ψ = np.kron([[1], [0]], [[1], [0]]), for the bits b0, b1
DefinePsi ==
    /\ pcX = "state"
    /\ psi' = kron(Ket(bits[1]), Ket(bits[2]))
    /\ pcX' = "expectation"
    /\ UNCHANGED <<Jq, hz, bits, H, energyQ, energyC>>

\* line 397: calculate_energy_expectation(ψ, H)
Expectation ==
    /\ pcX = "expectation"
    /\ energyQ' = calculate_energy_expectation(psi, H)
    /\ pcX' = "classical"
    /\ UNCHANGED <<Jq, hz, bits, H, psi, energyC>>

\* the function of lines 53-54 on the coupling and the spins of the bits
Classical ==
    /\ pcX = "classical"
    /\ energyC' = calculate_energy(<<Jq>>, <<SpinOfBit(bits[1]), SpinOfBit(bits[2])>>)
    /\ pcX' = "compared"
    /\ UNCHANGED <<Jq, hz, bits, H, psi, energyQ>>

ExpNext ==
    \/ DefineH /\ UNCHANGED notExp
    \/ DefinePsi /\ UNCHANGED notExp
    \/ Expectation /\ UNCHANGED notExp
    \/ Classical /\ UNCHANGED notExp

ExpSpec == ExpInit /\ [][ExpNext]_vars

-----------------------------------------------------------------------------

(* energy_from_params of notebook 07, lines 440-444, from the final state  *)
(* vector on. An amplitude is a complex number with integer real and       *)
(* imaginary parts over AmpDen, kept as the pair of the two integers; a    *)
(* probability and the energy are kept in units of 1/AmpDen^2. The         *)
(* outcomes are in the order 00, 01, 10, 11 of the state vector.           *)

\* np.abs(z)**2 of an amplitude
AbsSquared(z) == z[1] * z[1] + z[2] * z[2]

\* the amplitudes no greater than 1 in absolute value
Amplitudes ==
    {z \in (-AmpDen..AmpDen) \X (-AmpDen..AmpDen) : AbsSquared(z) <= AmpDen * AmpDen}

\* the state vectors of two qubits: the probabilities add up to 1
StateVectors ==
    {v \in [1..4 -> Amplitudes] :
        AbsSquared(v[1]) + AbsSquared(v[2]) + AbsSquared(v[3]) + AbsSquared(v[4])
            = AmpDen * AmpDen}

\* the eigenvalues of Z on the first qubit only
Z1_eigenvalues == <<1, 1, -1, -1>>

\* line 444: np.array([1, -1, -1, 1])
Z1Z2_eigenvalues == <<1, -1, -1, 1>>

\* line 443: wf = sim.simulate(circuit).final_state_vector
WfInit ==
    /\ wf \in StateVectors
    /\ probs = <<>>
    /\ energy = 0
    /\ pcW = "simulated"
    /\ IsingIdle /\ EncIdle /\ QuboIdle /\ GateIdle /\ CircIdle /\ ExpIdle /\ SplitIdle /\ StochIdle /\ BellIdle /\ LazyIdle /\ ReadIdle

\* line 444: np.abs(wf)**2
Probabilities ==
    /\ pcW = "simulated"
    /\ probs' = [n \in 1..Len(wf) |-> AbsSquared(wf[n])]
    /\ pcW' = "probabilities"
    /\ UNCHANGED <<wf, energy>>

\* line 444: return -np.sum(np.abs(wf)**2 * np.array([1, -1, -1, 1]))
ReturnEnergy ==
    /\ pcW = "probabilities"
    /\ energy' = 0 - Dot(probs, Z1Z2_eigenvalues)
    /\ pcW' = "returned"
    /\ UNCHANGED <<wf, probs>>

WfNext ==
    \/ Probabilities /\ UNCHANGED notWf
    \/ ReturnEnergy /\ UNCHANGED notWf

WfSpec == WfInit /\ [][WfNext]_vars

-----------------------------------------------------------------------------

(* The train/test split of the QBoost notebook, part_001 lines 73-77 (and  *)
(* 267-273 for the circles data set).                                      *)

\* np.arange(n): 0, 1, ..., n-1
arange(n) == [i \in 1..n |-> i - 1]

\* what np.random.shuffle may leave in the array: any order of its entries
Shuffles(a) ==
    {s \in [1..Len(a) -> Range(a)] : \A i, j \in 1..Len(a) : s[i] = s[j] => i = j}

\* 2 times the whole third of the length
SplitPointThirdFirst(n) == 2 * (n \div 3)

\* 2*len(idx)//3: the product first, then the floor division
SplitPoint(n) == (2 * n) \div 3

\* a[:m] and a[m:] for 0 <= m; a slice ends where the array ends
SliceTo(a, m) == SubSeq(a, 1, IF m < Len(a) THEN m ELSE Len(a))
SliceFrom(a, m) == SubSeq(a, (IF m < Len(a) THEN m ELSE Len(a)) + 1, Len(a))

\* line 73: idx = np.arange(len(labels))
SplitInit ==
    /\ \E n \in 0..MaxData : idx = arange(n)
    /\ idx_train = <<>>
    /\ idx_test = <<>>
    /\ pcS = "shuffle"
    /\ IsingIdle /\ EncIdle /\ QuboIdle /\ GateIdle /\ CircIdle /\ ExpIdle /\ WfIdle /\ StochIdle /\ BellIdle /\ LazyIdle /\ ReadIdle

\* line 74: np.random.shuffle(idx)
Shuffle ==
    /\ pcS = "shuffle"
    /\ idx' \in Shuffles(idx)
    /\ pcS' = "train"
    /\ UNCHANGED <<idx_train, idx_test>>

\* line 76: idx_train = idx[:2*len(idx)//3]
TakeTrain ==
    /\ pcS = "train"
    /\ idx_train' = SliceTo(idx, SplitPoint(Len(idx)))
    /\ pcS' = "test"
    /\ UNCHANGED <<idx, idx_test>>

\* line 77: idx_test = idx[2*len(idx)//3:]
TakeTest ==
    /\ pcS = "test"
    /\ idx_test' = SliceFrom(idx, SplitPoint(Len(idx)))
    /\ pcS' = "split"
    /\ UNCHANGED <<idx, idx_train>>

SplitNext ==
    \/ Shuffle /\ UNCHANGED notSplit
    \/ TakeTrain /\ UNCHANGED notSplit
    \/ TakeTest /\ UNCHANGED notSplit

SplitSpec == SplitInit /\ [][SplitNext]_vars

-----------------------------------------------------------------------------

(* The stochastic-matrix cell of the probability notebook (part_002 lines    *)
(* 158-160).  np.array of Python floats holds float64 values, so the cell's  *)
(* M @ p and its 1-norm are computed in IEEE-754 binary64 with round to      *)
(* nearest, ties to even.  A float64 value that is not negative is modelled  *)
(* as a record [m, e] with value m * 2^e, where m is zero or has exactly     *)
(* Precision bits; m is written little-endian in limbs below Base.           *)

\* float64 keeps 53 significant bits; the literals of line 159 are in tenths
Precision == 53
Tenths == 10
Base == 2^15
AtLimb(a, i) == IF i \in 1..Len(a) THEN a[i] ELSE 0

RECURSIVE Trim(_)
Trim(a) == IF a = <<>> \/ a[Len(a)] # 0 THEN a ELSE Trim(SubSeq(a, 1, Len(a) - 1))

RECURSIVE AddFrom(_, _, _, _)
AddFrom(a, b, i, c) ==
    IF i > Len(a) /\ i > Len(b)
    THEN IF c = 0 THEN <<>> ELSE <<c>>
    ELSE LET s == AtLimb(a, i) + AtLimb(b, i) + c
         IN <<s % Base>> \o AddFrom(a, b, i + 1, s \div Base)
BAdd(a, b) == AddFrom(a, b, 1, 0)

RECURSIVE MulSmallFrom(_, _, _, _)
MulSmallFrom(a, s, i, c) ==
    IF i > Len(a)
    THEN IF c = 0 THEN <<>> ELSE <<c>>
    ELSE LET t == a[i] * s + c
         IN <<t % Base>> \o MulSmallFrom(a, s, i + 1, t \div Base)
BMulSmall(a, s) == MulSmallFrom(a, s, 1, 0)

RECURSIVE MulFrom(_, _, _)
MulFrom(a, b, j) ==
    IF j > Len(b) THEN <<>>
    ELSE BAdd([i \in 1..(j - 1) |-> 0] \o BMulSmall(a, b[j]), MulFrom(a, b, j + 1))
BMul(a, b) == Trim(MulFrom(a, b, 1))

\* floor(a / s) and a mod s for a small s, long division from the top limb
RECURSIVE DivFrom(_, _, _, _)
DivFrom(a, s, i, r) ==
    IF i = 0 THEN [quo |-> <<>>, rem |-> r]
    ELSE LET cur == r * Base + a[i]
             rest == DivFrom(a, s, i - 1, cur % s)
         IN [quo |-> rest.quo \o <<cur \div s>>, rem |-> rest.rem]
BDivSmall(a, s) == DivFrom(a, s, Len(a), 0)

BitsOf(x) == IF x = 0 THEN 0 ELSE CHOOSE n \in 1..15 : 2^(n - 1) <= x /\ x < 2^n
BitLen(a) == IF a = <<>> THEN 0 ELSE 15 * (Len(a) - 1) + BitsOf(a[Len(a)])
BitAt(a, n) == (AtLimb(a, n \div 15 + 1) \div 2^(n % 15)) % 2
AnyBelow(a, n) ==
    \/ \E i \in 1..(n \div 15) : AtLimb(a, i) # 0
    \/ AtLimb(a, n \div 15 + 1) % 2^(n % 15) # 0
ShiftRight(a, d) ==
    LET w == d \div 15
        r == d % 15
    IN Trim([i \in 1..(Len(a) - w) |->
                AtLimb(a, i + w) \div 2^r + (AtLimb(a, i + w + 1) % 2^r) * 2^(15 - r)])
ShiftLeft(a, d) ==
    LET w == d \div 15
        r == d % 15
    IN Trim([i \in 1..(Len(a) + w + 1) |->
                (AtLimb(a, i - w) % 2^(15 - r)) * 2^r + AtLimb(a, i - w - 1) \div 2^(15 - r)])

Limbs == (Precision + 14) \div 15
Mantissa(a) == [i \in 1..Limbs |-> AtLimb(a, i)]
FZero == [m |-> Mantissa(<<>>), e |-> 0]

\* the float64 nearest to a * 2^e, ties to even
RoundNearestEven(a, e) ==
    LET L == BitLen(a)
        d == L - Precision
        quo == ShiftRight(a, d)
        up == BitAt(a, d - 1) = 1 /\ (AnyBelow(a, d - 1) \/ BitAt(quo, 0) = 1)
        r == IF up THEN BAdd(quo, <<1>>) ELSE quo
    IN IF L = 0 THEN FZero
       ELSE IF d <= 0 THEN [m |-> Mantissa(ShiftLeft(a, 0 - d)), e |-> e + d]
       ELSE IF BitLen(r) > Precision
            THEN [m |-> Mantissa(ShiftRight(r, 1)), e |-> e + d + 1]
            ELSE [m |-> Mantissa(r), e |-> e + d]

FMul(x, y) == RoundNearestEven(BMul(Trim(x.m), Trim(y.m)), x.e + y.e)
FAdd(x, y) ==
    LET e == IF x.e < y.e THEN x.e ELSE y.e
    IN IF Trim(x.m) = <<>> THEN y
       ELSE IF Trim(y.m) = <<>> THEN x
       ELSE RoundNearestEven(BAdd(ShiftLeft(Trim(x.m), x.e - e),
                                  ShiftLeft(Trim(y.m), y.e - e)), e)

\* the float64 a decimal literal of t tenths denotes (0.7 is Literal(7)): the
\* quotient t * Base^4 / 10 with a sticky bit for its remainder, rounded
Literal(t) ==
    LET dv == BDivSmall(<<0, 0, 0, 0, t>>, 10)
        sticky == IF dv.rem = 0 THEN 0 ELSE 1
    IN RoundNearestEven(Trim(BAdd(BMulSmall(dv.quo, 2), <<sticky>>)), 0 - 61)

\* A.T @ B, the product with the columns of A in place of its rows
MatMulF_columns(A, B) ==
    [i \in 1..Len(A) |->
        [j \in 1..Len(B[1]) |->
            LET f[n \in 1..Len(B)] ==
                    IF n = 1 THEN FMul(A[1][i], B[1][j])
                    ELSE FAdd(f[n - 1], FMul(A[n][i], B[n][j]))
            IN f[Len(B)]]]
\* A @ B on float64 arrays: every product and every sum is rounded
MatMulF(A, B) ==
    [i \in 1..Len(A) |->
        [j \in 1..Len(B[1]) |->
            LET f[n \in 1..Len(B)] ==
                    IF n = 1 THEN FMul(A[i][1], B[1][j])
                    ELSE FAdd(f[n - 1], FMul(A[i][n], B[n][j]))
            IN f[Len(B)]]]
\* np.linalg.norm(v, ord=1) of a one-column array: the sum of its entries'
\* absolute values
Norm1(v) ==
    LET f[n \in 1..Len(v)] == IF n = 1 THEN v[1][1] ELSE FAdd(f[n - 1], v[n][1])
    IN f[Len(v)]
Norm1Exact(v) ==
    LET f[n \in 0..Len(v)] ==
            IF n = 0 THEN 0
            ELSE f[n - 1] + (IF v[n][1] < 0 THEN 0 - v[n][1] ELSE v[n][1])
    IN f[Len(v)]

\* np.array of decimal literals given in tenths
Array(T) == [i \in 1..Len(T) |-> [j \in 1..Len(T[i]) |-> Literal(T[i][j])]]

\* the 2 x 2 matrices in tenths whose columns add up to one, and the
\* two-entry columns in tenths that add up to one
LeftStochastic == {<<<<a, b>>, <<Tenths - a, Tenths - b>>>> : a, b \in 0..Tenths}
StochasticVectors == {<<<<a>>, <<Tenths - a>>>> : a \in 0..Tenths}

StochInit ==
    /\ M \in LeftStochastic
    /\ pexact \in StochasticVectors
    /\ pv = Array(pexact)
    /\ pden = Tenths
    /\ napp = 0
    /\ norm1 = FZero
    /\ pcM = "apply"
    /\ IsingIdle /\ EncIdle /\ QuboIdle /\ GateIdle /\ CircIdle /\ ExpIdle
    /\ WfIdle /\ SplitIdle /\ BellIdle /\ LazyIdle /\ ReadIdle

\* line 160, np.linalg.norm(M @ p, ord=1), with the product kept as the next p
ApplyM ==
    /\ pcM = "apply"
    /\ napp < MaxApplications
    /\ pv' = MatMulF(Array(M), pv)
    /\ pexact' = MatMul(M, pexact)
    /\ pden' = Tenths * pden
    /\ norm1' = Norm1(pv')
    /\ napp' = napp + 1
    /\ UNCHANGED <<M, pcM>>

StochNext == ApplyM /\ UNCHANGED notStoch
StochSpec == StochInit /\ [][StochNext]_vars

-----------------------------------------------------------------------------

(* The two-qubit cell of the probability notebook (part_002 lines 498-507): *)
(* H on q0, CNOT from q0 to q1, and a measurement of both, run by           *)
(* simulator.run.  The state vector is real here; amp holds its entries     *)
(* over the basis 00, 01, 10, 11 (q0 first) multiplied by sqrt(2)^roots, so *)
(* the probability of an outcome is the square of its entry over 2^roots.   *)

\* lines 498-499: q0 = GridQubit(0,0), q1 = GridQubit(0,1)
q0 == <<0, 0>>
q1 == <<0, 1>>
\* the place of a qubit of the first row in the basis labels
QubitPlace(qb) == qb[2] + 1

cirq_H(qb) == [gate |-> "H", qubits |-> <<qb>>]
cirq_CNOT(c, t) == [gate |-> "CNOT", qubits |-> <<c, t>>]
cirq_measure(a, b) == [gate |-> "measure", qubits |-> <<a, b>>]

BitOf(b, i) == IF i = 1 THEN b \div 2 ELSE b % 2
SetBit(b, i, v) == IF i = 1 THEN 2 * v + (b % 2) ELSE 2 * (b \div 2) + v

\* H on the qubit at place i: |0> to |0> + |1>, |1> to |0> - |1>, over sqrt(2)
ApplyH(v, i) ==
    [n \in 1..Len(v) |->
        LET b == n - 1
        IN v[SetBit(b, i, 0) + 1]
           + (IF BitOf(b, i) = 1 THEN 0 - 1 ELSE 1) * v[SetBit(b, i, 1) + 1]]
\* the CNOT that flips the control when the target is set
ApplyCNOT_target_controls(v, c, t) ==
    [n \in 1..Len(v) |->
        LET b == n - 1
        IN v[(IF BitOf(b, t) = 1 THEN SetBit(b, c, 1 - BitOf(b, c)) ELSE b) + 1]]
\* CNOT: the target at place t is flipped when the control at place c is set
ApplyCNOT(v, c, t) ==
    [n \in 1..Len(v) |->
        LET b == n - 1
        IN v[(IF BitOf(b, c) = 1 THEN SetBit(b, t, 1 - BitOf(b, t)) ELSE b) + 1]]

\* the outcomes the measurement of the qubits qs can give in state v: the
\* bits of the basis states of nonzero probability
Outcomes(v, qs) ==
    {[i \in 1..Len(qs) |-> BitOf(b, QubitPlace(qs[i]))] :
        b \in {c \in 0..(Len(v) - 1) : v[c + 1] * v[c + 1] > 0}}

BellInit ==
    /\ bell = <<>>
    /\ amp = <<>>
    /\ roots = 0
    /\ applied = 0
    /\ results = <<>>
    /\ pcB = "build"
    /\ IsingIdle /\ EncIdle /\ QuboIdle /\ GateIdle /\ CircIdle /\ ExpIdle
    /\ WfIdle /\ SplitIdle /\ StochIdle /\ LazyIdle /\ ReadIdle

\* lines 501-505: the circuit; the simulator starts every run in |00>
NewBellCircuit ==
    /\ pcB = "build"
    /\ bell' = <<cirq_H(q0), cirq_CNOT(q0, q1), cirq_measure(q0, q1)>>
    /\ amp' = <<1, 0, 0, 0>>
    /\ pcB' = "run"
    /\ UNCHANGED <<roots, applied, results>>

\* line 506: simulator.run applies the next gate of the circuit
SimulatorStep ==
    /\ pcB = "run"
    /\ applied < Len(bell)
    /\ LET op == bell[applied + 1] IN
        /\ op.gate # "measure"
        /\ IF op.gate = "H"
           THEN /\ amp' = ApplyH(amp, QubitPlace(op.qubits[1]))
                /\ roots' = roots + 1
           ELSE /\ amp' = ApplyCNOT(amp, QubitPlace(op.qubits[1]),
                                    QubitPlace(op.qubits[2]))
                /\ roots' = roots
    /\ applied' = applied + 1
    /\ UNCHANGED <<bell, results, pcB>>

\* line 506: one repetition of the measurement
Measure ==
    /\ pcB = "run"
    /\ applied < Len(bell)
    /\ bell[applied + 1].gate = "measure"
    /\ Len(results) < MaxRepetitions
    /\ \E m \in Outcomes(amp, bell[applied + 1].qubits) :
            results' = Append(results, m)
    /\ UNCHANGED <<bell, amp, roots, applied, pcB>>

BellNext ==
    \/ NewBellCircuit /\ UNCHANGED notBell
    \/ SimulatorStep /\ UNCHANGED notBell
    \/ Measure /\ UNCHANGED notBell
BellSpec == BellInit /\ [][BellNext]_vars

-----------------------------------------------------------------------------

(* The exhaustive-search cell (part_000 lines 118-120) for any number of    *)
(* sites.  itertools.product is lazy: it keeps one position per pool and    *)
(* gives the next tuple on demand, so the cell is followed one iteration at *)
(* a time without the 2^n tuples being laid out.                            *)

\* line 75: J = [1.0, -1.0]
NotebookJ == <<1, 0 - 1>>

\* the tuple the iterator gives at these positions
TupleAt(pl, ix) == [i \in 1..Len(ix) |-> pl[ix[i] + 1]]
\* the rightmost pool whose position can still advance, 0 when there is none
Rightmost(pl, ix) ==
    LET open == {i \in 1..Len(ix) : ix[i] + 1 < Len(pl)}
    IN IF open = {} THEN 0 ELSE CHOOSE i \in open : \A j \in open : j <= i
\* the positions after the next tuple: the rightmost open one advances and
\* those right of it start over
Advance(pl, ix) ==
    LET r == Rightmost(pl, ix)
    IN [i \in 1..Len(ix) |-> IF i < r THEN ix[i] ELSE IF i = r THEN ix[i] + 1 ELSE 0]

LazyInit ==
    /\ nsites \in 1..MaxSites
    /\ order \in {<<1, -1>>, <<-1, 1>>}
    /\ indices = <<>>
    /\ shown = <<>>
    /\ pcL = "enter"
    /\ IsingIdle /\ EncIdle /\ QuboIdle /\ GateIdle /\ CircIdle /\ ExpIdle
    /\ WfIdle /\ SplitIdle /\ StochIdle /\ BellIdle /\ ReadIdle

\* a loop that refuses more than three sites before it makes the iterator
LazyEnterCapped ==
    /\ pcL = "enter"
    /\ indices' = [i \in 1..nsites |-> 0]
    /\ pcL' = IF nsites > 3 THEN "failed" ELSE "loop"
    /\ UNCHANGED <<nsites, order, shown>>

\* line 119: itertools.product(<nsites copies of the set>) makes the iterator
LazyEnter ==
    /\ pcL = "enter"
    /\ indices' = [i \in 1..nsites |-> 0]
    /\ pcL' = "loop"
    /\ UNCHANGED <<nsites, order, shown>>

\* lines 119-120: the iterator gives the next tuple and the body prints its
\* energy and the tuple
LazyStep ==
    /\ pcL = "loop"
    /\ Len(shown) < MaxSteps
    /\ LET s == TupleAt(order, indices)
           e == calculate_energy(NotebookJ, s)
       IN IF e.exc = "none"
          THEN /\ shown' = Append(shown, <<e.value, s>>)
               /\ pcL' = IF Rightmost(order, indices) = 0 THEN "exhausted" ELSE "loop"
               /\ indices' = IF Rightmost(order, indices) = 0 THEN indices
                             ELSE Advance(order, indices)
          ELSE /\ shown' = shown
               /\ pcL' = "failed"
               /\ indices' = indices
    /\ UNCHANGED <<nsites, order>>

\* the iterator has no tuple left: the loop ends
LazyExit ==
    /\ pcL = "exhausted"
    /\ pcL' = "searched"
    /\ UNCHANGED <<nsites, order, indices, shown>>

LazyNext ==
    \/ LazyEnter /\ UNCHANGED notLazy
    \/ LazyStep /\ UNCHANGED notLazy
    \/ LazyExit /\ UNCHANGED notLazy
LazySpec == LazyInit /\ [][LazyNext]_vars

-----------------------------------------------------------------------------

(* The QAOA cells of the QBoost notebook (part_001 lines 767-880).  The     *)
(* angles are taken where the gates are exact: beta is 0 or 1, so that      *)
(* X**(-beta) is the identity or X, and gamma counts quarter turns with     *)
(* whole h and J, so that exp(i*gamma*h*Z) multiplies by powers of i.  An   *)
(* amplitude is a pair <<re, im>>; a state is [v, roots] and stands for v   *)
(* divided by sqrt(2)^roots.                                                *)

Betas == 0..1
Gammas == 0..3
NodePairs(n) == {pr \in (0..(n - 1)) \X (0..(n - 1)) : pr[1] < pr[2]}

\* lines 820-821: nth_bit(idx, n), the bit of qubit n in the basis label idx
nth_bit(ix, n) == (ix \div 2^(num_nodes - n - 1)) % 2
\* the basis label idx with the bit of qubit n set to b
with_bit(ix, n, b) == ix + (b - nth_bit(ix, n)) * 2^(num_nodes - n - 1)

\* z times i^c
TimesI(z, c) ==
    LET r == ((c % 4) + 4) % 4
    IN IF r = 0 THEN z
       ELSE IF r = 1 THEN <<0 - z[2], z[1]>>
       ELSE IF r = 2 THEN <<0 - z[1], 0 - z[2]>>
       ELSE <<z[2], 0 - z[1]>>

\* lines 770-771: initial_layer yields cirq.H.on_each(qubits)
initial_layer ==
    [n \in 1..num_nodes |-> [gate |-> "H", on |-> <<n - 1>>, arg |-> 0]]
\* lines 773-774: beta_layer yields (cirq.X**(-beta)).on_each(qubits)
beta_layer_on_each(b) ==
    [n \in 1..num_nodes |-> [gate |-> "X", on |-> <<n - 1>>, arg |-> 0 - b]]
\* lines 776-783: gamma_layer yields, qubit by qubit, exp(i*gamma*h[i]*Z_i)
\* and then exp(i*gamma*J[i,j]*Z_i*Z_j) for the later qubits j of a nonzero
\* coupling
RECURSIVE gamma_from(_, _)
gamma_from(g, i) ==
    IF i >= num_nodes THEN <<>>
    ELSE <<[gate |-> "expZ", on |-> <<i>>, arg |-> fields[i + 1] * g]>>
         \o [m \in 1..Cardinality({j \in (i + 1)..(num_nodes - 1) : couplings[<<i, j>>] # 0}) |->
                LET js == {j \in (i + 1)..(num_nodes - 1) : couplings[<<i, j>>] # 0}
                    j == CHOOSE c \in js : Cardinality({d \in js : d < c}) = m - 1
                IN [gate |-> "expZZ", on |-> <<i, j>>, arg |-> couplings[<<i, j>>] * g]]
         \o gamma_from(g, i + 1)
gamma_layer_ising(g) == gamma_from(g, 0)

\* lines 785-788: create_cirquit(beta, gamma)
create_cirquit(b, g) == initial_layer \o beta_layer_on_each(b) \o gamma_layer_ising(g)

\* one gate of the circuit acting on a state
ApplyGate(op, st) ==
    LET v == st.v
        a == op.on[1]
    IN IF op.gate = "H"
       THEN [v |-> [n \in 1..Len(v) |->
                      LET z0 == v[with_bit(n - 1, a, 0) + 1]
                          z1 == v[with_bit(n - 1, a, 1) + 1]
                          sg == IF nth_bit(n - 1, a) = 1 THEN 0 - 1 ELSE 1
                      IN <<z0[1] + sg * z1[1], z0[2] + sg * z1[2]>>],
             roots |-> st.roots + 1]
       ELSE IF op.gate = "X"
       THEN [v |-> [n \in 1..Len(v) |->
                      IF op.arg % 2 = 0 THEN v[n]
                      ELSE v[with_bit(n - 1, a, 1 - nth_bit(n - 1, a)) + 1]],
             roots |-> st.roots]
       ELSE IF op.gate = "expZ"
       THEN [v |-> [n \in 1..Len(v) |->
                      TimesI(v[n], IF nth_bit(n - 1, a) = 0 THEN op.arg ELSE 0 - op.arg)],
             roots |-> st.roots]
       ELSE [v |-> [n \in 1..Len(v) |->
                      TimesI(v[n], IF nth_bit(n - 1, a) = nth_bit(n - 1, op.on[2])
                                   THEN op.arg ELSE 0 - op.arg)],
             roots |-> st.roots]

\* sim.simulate(circuit).final_state_vector: the gates in turn from |0...0>
RECURSIVE RunFrom(_, _, _)
RunFrom(c, n, st) == IF n > Len(c) THEN st ELSE RunFrom(c, n + 1, ApplyGate(c[n], st))
simulate(c) ==
    RunFrom(c, 1, [v |-> [n \in 1..(2^num_nodes) |-> IF n = 1 THEN <<1, 0>> ELSE <<0, 0>>],
                   roots |-> 0])

\* the sum of J[i, j] over a set of pairs
RECURSIVE SumCouplings(_)
SumCouplings(S) ==
    IF S = {} THEN 0
    ELSE LET pr == CHOOSE x \in S : TRUE
         IN couplings[pr] + SumCouplings(S \ {pr})
\* lines 824-831: ZZ_filter[idx], h[i] for every qubit whose bit is set and
\* J[i, j] for every pair i < j of equal bits
ZZ_filter(ix) ==
    LET hs[i \in 0..num_nodes] ==
            IF i = 0 THEN 0
            ELSE hs[i - 1] + (IF nth_bit(ix, i - 1) = 1 THEN fields[i] ELSE 0)
    IN hs[num_nodes]
       + SumCouplings({pr \in NodePairs(num_nodes) : nth_bit(ix, pr[1]) = nth_bit(ix, pr[2])})
\* lines 823-832: energy_from_wavefunction(wf), times 2^roots
energy_from_wavefunction(st) ==
    LET acc[n \in 0..Len(st.v)] ==
            IF n = 0 THEN 0
            ELSE acc[n - 1]
                 + (st.v[n][1] * st.v[n][1] + st.v[n][2] * st.v[n][2]) * ZZ_filter(n - 1)
    IN 0 - acc[Len(st.v)]

\* lines 834-840: energy_from_params(beta_gamma) builds a circuit of its own
energy_from_params(bg) == energy_from_wavefunction(simulate(create_cirquit(bg[1], bg[2])))

\* np.argmax of a complex array: the first entry that is largest by real
\* part and then by imaginary part
LexLeq(y, z) == y[1] < z[1] \/ (y[1] = z[1] /\ y[2] <= z[2])
argmax(v) ==
    (CHOOSE n \in 1..Len(v) :
        /\ \A m \in 1..Len(v) : LexLeq(v[m], v[n])
        /\ \A m \in 1..(n - 1) : v[m] # v[n]) - 1

ReadInit ==
    /\ num_nodes \in 1..MaxNodes
    /\ fields \in [1..num_nodes -> (0 - MaxIsing)..MaxIsing]
    /\ couplings \in [NodePairs(num_nodes) -> (0 - MaxIsing)..MaxIsing]
    /\ beta0 = 0
    /\ gamma0 = 0
    /\ circuit0 = <<>>
    /\ result = <<>>
    /\ final_circuit = <<>>
    /\ wfq = <<>>
    /\ weights = <<>>
    /\ pcF = "init"
    /\ IsingIdle /\ EncIdle /\ QuboIdle /\ GateIdle /\ CircIdle /\ ExpIdle
    /\ WfIdle /\ SplitIdle /\ StochIdle /\ BellIdle /\ LazyIdle

\* lines 790-792: random beta and gamma and the circuit made of them
InitialCircuit ==
    /\ pcF = "init"
    /\ beta0' \in Betas
    /\ gamma0' \in Gammas
    /\ circuit0' = create_cirquit(beta0', gamma0')
    /\ pcF' = "minimize"
    /\ UNCHANGED <<num_nodes, fields, couplings, result, final_circuit, wfq, weights>>

\* lines 842-844: minimize calls energy_from_params, whose circuit and wf are
\* its own, and returns the parameters it ends at and the value there
Minimize ==
    /\ pcF = "minimize"
    /\ \E x \in Betas \X Gammas :
          result' = [x |-> x, fun |-> energy_from_params(x)]
    /\ pcF' = "extract"
    /\ UNCHANGED <<num_nodes, fields, couplings, beta0, gamma0, circuit0,
                   final_circuit, wfq, weights>>

\* lines 871-880: final_circuit, the state vector and the weights
Extract ==
    /\ pcF = "extract"
    /\ final_circuit' = create_cirquit(result.x[1], result.x[2])
    /\ wfq' = simulate(circuit0)
    /\ LET kk == argmax(wfq'.v)
       IN weights' = [i \in 1..num_nodes |-> (kk \div 2^(i - 1)) % 2]
    /\ pcF' = "extracted"
    /\ UNCHANGED <<num_nodes, fields, couplings, beta0, gamma0, circuit0, result>>

ReadNext ==
    \/ InitialCircuit /\ UNCHANGED notRead
    \/ Minimize /\ UNCHANGED notRead
    \/ Extract /\ UNCHANGED notRead
ReadSpec == ReadInit /\ [][ReadNext]_vars

-----------------------------------------------------------------------------

(* What the properties below speak of *)

\* the configurations of n spins
Configs(n) == [1..n -> Spin]

\* the sum of the coupling terms J_i * s_i * s_(i+1) of a chain
CouplingSum(Jl, s) ==
    LET f[i \in 0..Len(Jl)] ==
            IF i = 0 THEN 0 ELSE f[i - 1] + Jl[i] * s[i] * s[i + 1]
    IN f[Len(Jl)]

\* the Hamiltonian as documented (part_000 line 35): the coupling sum with
\* the negative sign in front, no fields, no offset
Hamiltonian(Jl, s) == 0 - CouplingSum(Jl, s)

\* the cell calculate_energy(J, sigma) has just run: out holds its result and
\* sigma is still the configuration it was given
Evaluated == (pc = "search" \/ pc = "failed") /\ k = 0

HasBadEntry(s) == \E i \in 1..Len(s) : s[i] \notin Spin

Flip(s) == [i \in 1..Len(s) |-> 0 - s[i]]

Abs(x) == IF x < 0 THEN 0 - x ELSE x

\* the lines of the finished exhaustive loop
PrintedEnergies == {printed[i][1] : i \in 1..Len(printed)}
PrintedConfigs == {printed[i][2] : i \in 1..Len(printed)}
MinPrinted == CHOOSE e \in PrintedEnergies : \A d \in PrintedEnergies : e <= d
MinLines == {i \in 1..Len(printed) : printed[i][1] = MinPrinted}
PrintedMinimizers == {printed[i][2] : i \in MinLines}

\* the samples of least energy under a BinaryQuadraticModel
BQMMinimizers(m) ==
    LET scored == {<<s, BQMEnergy(m, s)>> : s \in Configs(Cardinality(DOMAIN m.linear))}
        least == {p \in scored : \A o \in scored : p[2] <= o[2]}
    IN {p[1] : p \in least}

-----------------------------------------------------------------------------
(* The properties *)

\* C1: for every J and every configuration of len(J)+1 spins,
\* calculate_energy(J, sigma) returns the Hamiltonian -sum_i J_i s_i s_(i+1),
\* with the negative sign in front of the coupling sum.
C1_EnergyIsHamiltonian ==
    (Evaluated /\ sigma \in Configs(Len(J) + 1))
        => out = Return(Hamiltonian(J, sigma))

C3_OptimumMinusTwoTwice ==
    (pc = "searched" /\ J = <<1, -1>>)
        => /\ Len(printed) = 8
           /\ MinPrinted = -2
           /\ Cardinality(MinLines) = 2

C3_Witness ==
    pc = "searched" /\ J = <<1, -1>> /\ Len(printed) = 8 /\ k = 8

\* C4: for two sites and one nonzero coupling J, the least energy over the 4
\* configurations is -|J|, and a configuration attains it if and only if
\* s_0 * s_1 has the sign of J.
C4_TwoSites ==
    (pc = "searched" /\ Len(J) = 1 /\ J[1] # 0)
        => /\ Len(printed) = 4
           /\ MinPrinted = 0 - Abs(J[1])
           /\ \A i \in 1..Len(printed) :
                (printed[i][1] = MinPrinted)
                    <=> (printed[i][2][1] * printed[i][2][2] * J[1] > 0)

\* no configuration is printed twice
C5_NoRepeat ==
    \A i, j \in 1..Len(printed) : printed[i][2] = printed[j][2] => i = j

\* the finished loop has printed every configuration, in 2^N lines
C5_AllVisited ==
    pc = "searched"
        => /\ PrintedConfigs = Configs(NumSites(J))
           /\ Len(printed) = 2 ^ NumSites(J)
           /\ todo = <<>>

\* C5: the exhaustive loop takes every one of the 2^N configurations exactly
\* once, none skipped and none twice, and then ends.
C5_EveryConfigurationOnce ==
    /\ [](C5_NoRepeat /\ C5_AllVisited)
    /\ (pc = "search") ~> (pc = "searched")

C5_Witness ==
    pc = "searched" /\ Len(J) = MaxCouplings /\ Len(printed) = 2 ^ (MaxCouplings + 1)

\* C6: with no fields, the energy of a configuration and of the configuration
\* with every spin flipped are the same.
C6_FlipSymmetry ==
    /\ Evaluated => out = calculate_energy(J, Flip(sigma))
    /\ (pc = "loop" \/ pc = "searched") =>
         \A i \in 1..Len(printed) :
            Return(printed[i][1]) = calculate_energy(J, Flip(printed[i][2]))

C6_Witness ==
    /\ Evaluated
    /\ out.exc = "none"
    /\ out.value # 0
    /\ sigma \in Configs(Len(J) + 1)

\* C7: every spin s converted to binary by w = (s+1)/2 and back by
\* s' = 2w - 1 is the spin it was, and every w is 0 or 1.
C7_RoundTrip ==
    /\ (pcE = "binary" \/ pcE = "back") =>
          /\ Len(labels) = Len(spins)
          /\ \A i \in 1..Len(labels) : labels[i] \in {0, 1}
    /\ pcE = "back" => y_train = spins

C7_Witness ==
    /\ pcE = "back"
    /\ \E i, j \in 1..Len(spins) : spins[i] = 1 /\ spins[j] = -1

C9_IndexError ==
    (Evaluated /\ Len(J) > 0 /\ Len(sigma) < Len(J) + 1)
        => out = Raise("IndexError")

C9_Witness ==
    /\ Evaluated
    /\ Len(J) = 2
    /\ Len(sigma) = 2
    /\ out.exc = "IndexError"

\* C10 as stated: the evaluation fails with an invalid-value error whenever
\* an entry of the configuration is not +1 or -1.
C10_InvalidValueError ==
    (Evaluated /\ HasBadEntry(sigma)) => out.exc = "ValueError"

\* C10 as amended: the entries are not checked. With an entry that is not +1
\* or -1 the evaluation raises no invalid-value error: it returns the sum of
\* J_i * s_i * s_(i+1) over the entries as they are when the configuration has
\* at least len(J)+1 entries, and raises IndexError when it has fewer.
C10_EntriesNotChecked ==
    (Evaluated /\ HasBadEntry(sigma))
        => IF Len(sigma) >= Len(J) + 1
           THEN out = Return(CouplingSum(J, sigma))
           ELSE out = Raise("IndexError")

C10_Witness ==
    /\ Evaluated
    /\ HasBadEntry(sigma)
    /\ out.exc = "none"
    /\ out.value = 4

LastConfiguration == [i \in 1..NumSites(J) |-> pool[Len(pool)]]

\* C12 as stated: no step of the notebook replaces J or σ: whatever step is
\* taken, J and σ denote the values they denoted before it.
C12_NeverReplaced ==
    [][sigma' = sigma /\ J' = J /\ Jform' = Jform]_vars

\* C12 as amended: the couplings J holds never change, but both names are
\* rebound. Line 176 rebinds J from the list to the dictionary of the same
\* couplings, and only that step does. Every iteration of the loop rebinds σ
\* to the configuration it takes, and no other step changes σ: once the loop
\* has ended σ is the last configuration enumerated, in the later cells too.
C12_ReboundNotMutated ==
    /\ [][/\ J' = J
          /\ (Jform' # Jform) => (pc = "searched" /\ Jform = "list" /\ Jform' = "dict")
          /\ (pc = "loop" /\ todo # <<>>) => sigma' = Head(todo)
          /\ (sigma' # sigma) => (pc = "loop" /\ todo # <<>>)]_vars
    /\ []((pc \in {"searched", "dicts", "built"}) => sigma = LastConfiguration)
    /\ [](pc = "built" => (Jform = "dict" /\ model.quadratic = DictJ(J)))

C12_Witness ==
    /\ pc = "built"
    /\ Len(J) = 2
    /\ Jform = "dict"
    /\ sigma = <<-1, -1, -1>>
    /\ printed[1][2] = <<1, 1, 1>>

\* the parallel search has ended: everything evaluated, one result left
ParDone == pc = "parallel" /\ pending = {} /\ Cardinality(partials) = 1

\* C13: whatever the order in which the workers evaluate the configurations
\* and whatever the order in which the results are reduced, the energy left
\* is the least energy of the sequential loop and the configuration left is
\* one of the configurations the sequential loop printed with that energy.
C13_ParallelMinimum ==
    ParDone =>
        \A r \in partials :
            /\ r[1] = MinPrinted
            /\ r[2] \in PrintedMinimizers

C13_Witness ==
    /\ ParDone
    /\ Cardinality(PrintedMinimizers) > 1
    /\ Cardinality(PrintedEnergies) > 1
    /\ \E r \in partials : r[2] = <<-1, 1>>

\* the energy the response reports for its read i
ReadEnergy(i) == BQMEnergy(model, response[i])

QKeys == {Q[n][1] : n \in 1..Len(Q)}

\* C15: the keys of the finished Q are exactly the pairs (i, j) with
\* 0 <= i <= j < K, one entry each, K(K+1)/2 entries in all, and at no time
\* does Q hold both (i, j) and (j, i) for i # j.
C15_UpperTriangleOnce ==
    /\ \A key \in QKeys : key[1] # key[2] => <<key[2], key[1]>> \notin QKeys
    /\ \A m, n \in 1..Len(Q) : Q[m][1] = Q[n][1] => m = n
    /\ pcQ = "done" =>
          /\ QKeys = {<<i, j>> \in (0..(n_models - 1)) \X (0..(n_models - 1)) : i <= j}
          /\ 2 * Len(Q) = n_models * (n_models + 1)

C15_Witness ==
    /\ pcQ = "done"
    /\ n_models = MaxModels
    /\ <<0, MaxModels - 1>> \in QKeys

\* the objective sample_qubo minimizes (part_001 line 616): the sum over the
\* keys of Q of Q[(i, j)] * w_i * w_j, for the bits w_0, w_1, ...
QObjective(w) ==
    LET f[n \in 0..Len(Q)] ==
            IF n = 0 THEN 0
            ELSE f[n - 1] + Q[n][2] * w[Q[n][1][1] + 1] * w[Q[n][1][2] + 1]
    IN f[Len(Q)]

\* the coefficients as documented (part_001 lines 457-463), in units of
\* 1/K^2: q_kl = sum_i h_k(x_i) h_l(x_i)/K^2 and
\* q_kk = N/K^2 + λ - 2 sum_i h_k(x_i) y_i/K
DocumentedOffDiagonal(a, b) == Dot(predictions[a], predictions[b])
DocumentedDiagonal(a) ==
    NumPoints + n_models * n_models * lam
        - 2 * n_models * Dot(predictions[a], y_train)

\* the documented QUBO: the sum over the ordered pairs k # l of
\* w_k w_l q_kl, plus the sum over k of w_k q_kk
DocumentedObjective(w) ==
    LET pairs == {p \in (1..n_models) \X (1..n_models) : p[1] # p[2]}
    IN SumFn([p \in pairs |-> w[p[1]] * w[p[2]] * DocumentedOffDiagonal(p[1], p[2])],
             pairs)
       + SumFn([a \in 1..n_models |-> w[a] * DocumentedDiagonal(a)], 1..n_models)

\* C16: for every w in {0,1}^K, the objective the finished Q encodes is the
\* documented QUBO, in which every pair k # l is summed in both orders.
C16_ObjectiveAsDocumented ==
    pcQ = "done" =>
        \A w \in [1..n_models -> {0, 1}] : QObjective(w) = DocumentedObjective(w)

\* C17: the eight operations of the decomposition, applied in order to a
\* basis state |ab>, give |ab> back with the phase of exp(-iπγ Z⊗Z):
\* -πγ on |00> and |11>, +πγ on |01> and |10>.
C17_DecompositionIsZZ ==
    pcG = "done" =>
        /\ opIdx = 8
        /\ ket = ket0
        /\ phase = test_matrix(gamma, ket0)
        /\ phase = (IF ket0 \in {<<0, 0>>, <<1, 1>>} THEN 0 - gamma ELSE gamma)
                       % (2 * GammaDen)

C17_Witness ==
    /\ pcG = "done"
    /\ gamma = 1
    /\ ket0 = <<0, 1>>
    /\ phase = 1

HadamardLayer ==
    {[gate |-> "H", exponent |-> 1, qubits |-> <<qb>>] : qb \in {"a", "b"}}
MixingLayer(beta) ==
    {[gate |-> "X", exponent |-> 0 - beta, qubits |-> <<qb>>] : qb \in {"a", "b"}}
CostLayer(g) == {[gate |-> "ZZ", exponent |-> g, qubits |-> <<"a", "b">>]}
NumPairs ==
    IF Len(betas) < Len(gammas) THEN Len(betas) ELSE Len(gammas)

\* C18: the circuit create_cirquit returns is the Hadamard layer on both
\* qubits and then, for k = 0, 1, ... in order, the mixing layer of betas[k]
\* with the cost layer of gammas[k] right after it, for
\* min(len(betas), len(gammas)) pairs and nothing more.
C18_LayerOrder ==
    pcC = "returned" =>
        /\ Len(circuit) = 1 + 2 * NumPairs
        /\ circuit[1] = HadamardLayer
        /\ \A n \in 1..NumPairs :
              /\ circuit[2 * n] = MixingLayer(betas[n])
              /\ circuit[2 * n + 1] = CostLayer(gammas[n])

C18_Witness ==
    /\ pcC = "returned"
    /\ Len(betas) = 2
    /\ Len(gammas) = 1
    /\ Len(circuit) = 3
    /\ betas[1] # gammas[1]

\* C19: for the operator H = -J Z⊗Z without field and every basis state
\* |b0 b1>, calculate_energy_expectation(ψ, H) is calculate_energy([J], σ)
\* for the spins σ_i = +1 where b_i = 0 and -1 where b_i = 1. (energyQ is
\* twice the expectation value.)
C19_QuantumMatchesClassical ==
    (pcX = "compared" /\ hz = 0)
        => /\ energyC.exc = "none"
           /\ energyQ = 2 * energyC.value

\* the probability 1, in units of 1/AmpDen^2
One == AmpDen * AmpDen

\* C20: the energy returned is -1 on the basis states 00 and 11 and +1 on
\* 01 and 10; for every state it is between -1 and 1; and it is -1 exactly
\* when the outcomes 01 and 10 have probability 0.
C20_CostEnergy ==
    pcW = "returned" =>
        /\ (probs[1] = One \/ probs[4] = One) => energy = 0 - One
        /\ (probs[2] = One \/ probs[3] = One) => energy = One
        /\ 0 - One <= energy /\ energy <= One
        /\ (energy = 0 - One) <=> (probs[2] = 0 /\ probs[3] = 0)

C20_Witness ==
    /\ pcW = "returned"
    /\ energy = 0 - One
    /\ probs[1] > 0
    /\ probs[4] > 0

\* C21: for every n and every shuffled index array, idx_train and idx_test
\* have no index in common, every index 0..n-1 is in one of them exactly
\* once, and their sizes are floor(2n/3) and n - floor(2n/3).
C21_SplitIsPartition ==
    pcS = "split" =>
        LET n == Len(idx) IN
        /\ Range(idx_train) \cap Range(idx_test) = {}
        /\ Range(idx_train) \cup Range(idx_test) = 0..(n - 1)
        /\ Len(idx_train) + Len(idx_test) = n
        /\ Cardinality(Range(idx_train)) = Len(idx_train)
        /\ Cardinality(Range(idx_test)) = Len(idx_test)
        /\ 3 * Len(idx_train) <= 2 * n /\ 2 * n < 3 * (Len(idx_train) + 1)
        /\ Len(idx_test) = n - Len(idx_train)

C21_Witness ==
    /\ pcS = "split"
    /\ Len(idx) = 5
    /\ idx # arange(5)
    /\ Len(idx_train) = 3
    /\ Len(idx_test) = 2

\* the float64 value 1.0, the largest mantissa, and how far a float64 value
\* is from 1.0 in units of 2^-Precision (Base when it is further than that
\* counts)
FOne == [m |-> Mantissa(ShiftLeft(<<1>>, Precision - 1)), e |-> 1 - Precision]
MaxMantissa ==
    [i \in 1..Limbs |->
        IF i < Limbs THEN Base - 1 ELSE 2^(Precision - 15 * (Limbs - 1)) - 1]
UnitsFromOne(x) ==
    IF x.e = 1 - Precision /\ \A i \in 2..Limbs : x.m[i] = FOne.m[i]
    THEN 2 * x.m[1]
    ELSE IF x.e = 0 - Precision /\ \A i \in 2..Limbs : x.m[i] = MaxMantissa[i]
    THEN Base - x.m[1]
    ELSE Base

C23_OnlyCorrelatedOutcomes ==
    \A i \in 1..Len(results) : results[i] \in {<<0, 0>>, <<1, 1>>}

C23_Witness ==
    /\ Len(results) = MaxRepetitions
    /\ \E i \in 1..Len(results) : results[i] = <<0, 0>>
    /\ \E i \in 1..Len(results) : results[i] = <<1, 1>>
    /\ amp = <<1, 0, 0, 1>>
    /\ roots = 1

\* C24 as stated: an exhaustive search asked for more sites than the
\* practical ceiling (MaxSites is well above the few tens documented) is
\* rejected: it prints no configuration.
C24_ScaleViolationRejected ==
    nsites = MaxSites => shown = <<>>

\* C24: the exhaustive search has no ceiling on the number of sites: for the
\* notebook's J and any number of sites not below len(J)+1 it raises no
\* error, every line it prints holds a configuration of that many spins not
\* printed before, and when it ends it has printed 2^n lines.
C24_NoCeiling ==
    /\ nsites >= Len(NotebookJ) + 1 => pcL # "failed"
    /\ \A a \in 1..Len(shown) :
          /\ Len(shown[a][2]) = nsites
          /\ Range(shown[a][2]) \subseteq Spin
          /\ \A b \in 1..Len(shown) : a # b => shown[a][2] # shown[b][2]
    /\ pcL \in {"exhausted", "searched"} => Len(shown) = 2^nsites

C24_Witness ==
    /\ nsites = MaxSites
    /\ pcL = "loop"
    /\ Len(shown) = MaxSteps

\* C25: the state vector the weights are read from is the state of the
\* circuit made of the optimizer's result parameters result.x[0] and
\* result.x[1], not that of the circuit made earlier of the random initial
\* beta and gamma.
C25_ReadsFinalCircuit ==
    pcF = "extracted" => wfq = simulate(final_circuit)

====
